---- MODULE Spec2Model ----
(***************************************************************************)
(* Model of lib/Extension.js: the Extension(schema, pluginOptions) plugin  *)
(* that registers generated methods on a schema's `methods` and `statics`  *)
(* tables and lazily builds one auxiliary mongoose model per attachment.   *)
(*                                                                         *)
(* Strings that the code slices and concatenates (table names, method      *)
(* names, TYPE) are sequences of one-character strings.  Each generated    *)
(* method is one action: the call, the single pass-through to the          *)
(* persistence layer and the completion callback.  The persistence layer   *)
(* (mongoose) is the collaborator: create/find/findOne/remove over a       *)
(* collection of documents, each of which may report an error.             *)
(***************************************************************************)
EXTENDS Integers, Sequences, FiniteSets, Bags, TLC

VARIABLES
    methods,      \* schema.methods: name -> what is registered under it
    statics,      \* schema.statics: name -> what is registered under it
    atts,         \* one closure per successful Extension(...) call
    built,        \* per closure: how often getExtension built the model
    firstHandle,  \* per closure: the model its first build returned
    registered,   \* the models registered with db.model, per connection
    store,        \* the documents of the auxiliary collections
    out           \* the last call: its arguments and what came of it

vars == <<methods, statics, atts, built, firstHandle, registered, store, out>>

(* ------------------------------ bounds -------------------------------- *)
MaxRecords == 2
MaxBuilt == 3

(* ------------------------------ strings ------------------------------- *)
toUpperCaseChar(c) ==
    CASE c = "b" -> "B"
      [] c = "x" -> "X"
      [] OTHER -> c

toLowerCaseChar(c) ==
    CASE c = "B" -> "b"
      [] c = "X" -> "x"
      [] OTHER -> c

toUpperCase(s) == [i \in 1..Len(s) |-> toUpperCaseChar(s[i])]

toLowerCase(s) == [i \in 1..Len(s) |-> toLowerCaseChar(s[i])]

\* String.prototype.slice(from, to) with 0-based, end-exclusive indices
slice(s, from, to) ==
    LET hi == IF to > Len(s) THEN Len(s) ELSE to
    IN  IF from >= hi THEN << >> ELSE SubSeq(s, from + 1, hi)

\* the JavaScript value undefined, where a string is expected
undefined == <<"undefined">>

\* an absent table name (pluginOptions.tableName === undefined)
NoName == undefined

\* "b" and "B" derive the same method names, so a schema of this model
\* carries at most one attachment
TableNames == { << >>, <<"b">>, <<"B">> }

TYPE(tableName) == toLowerCase(tableName)

upperTableName(tableName) ==
    toUpperCase(slice(tableName, 0, 1)) \o slice(tableName, 1, Len(tableName))

lowerTableName(tableName) ==
    toLowerCase(slice(tableName, 0, 1)) \o slice(tableName, 1, Len(tableName))

CREATE_METHOD(tableName) == <<"c","r","e","a","t","e">> \o upperTableName(tableName)

FIND_METHOD(tableName) == <<"f","i","n","d">> \o upperTableName(tableName)

REMOVE_METHOD(tableName) == <<"r","e","m","o","v","e">> \o upperTableName(tableName)

FIND_BY_METHOD(tableName) == <<"f","i","n","d","B","y">> \o upperTableName(tableName)

(* ------------------------------ registries ---------------------------- *)
\* A registry maps a name to what is registered under it.  att = 0 marks an
\* entry the schema's author put there before any attach.
UserFunction == [kind |-> "function", att |-> 0, op |-> "user"]

UserValue == [kind |-> "other", att |-> 0, op |-> "user"]

Generated(i, op) == [kind |-> "function", att |-> i, op |-> op]

EmptyRegistry == [n \in {} |-> UserFunction]

Put(reg, name, v) ==
    [n \in DOMAIN reg \cup {name} |-> IF n = name THEN v ELSE reg[n]]

\* the names under which attach registered the generated operation op
Names(reg, op) == {n \in DOMAIN reg : reg[n].att > 0 /\ reg[n].op = op}

IsFunctionAt(reg, name) == name \in DOMAIN reg /\ reg[name].kind = "function"

\* registries a schema may carry before the plugin is attached
PreRegistries ==
    { [methods |-> EmptyRegistry, statics |-> EmptyRegistry],
      [methods |-> Put(EmptyRegistry, CREATE_METHOD(<<"b">>), UserFunction),
       statics |-> EmptyRegistry],
      [methods |-> Put(Put(EmptyRegistry, CREATE_METHOD(<<"b">>), UserValue),
                       FIND_METHOD(<<"b">>), UserFunction),
       statics |-> Put(EmptyRegistry, CREATE_METHOD(<<"b">>), UserFunction)] }

(* ------------------------------ attach -------------------------------- *)
TableNameMissing_NoEmptyCheck(tableName) == tableName = NoName

TableNameMissing(tableName) == tableName = NoName \/ tableName = << >>

IsDuplicate_Never(ms, tableName) == FALSE

IsDuplicate(ms, tableName) == IsFunctionAt(ms, CREATE_METHOD(tableName))

AttachMethods_WithFindBy(ms, tableName, i) ==
    LET m1 == Put(ms, CREATE_METHOD(tableName), Generated(i, "create"))
        m2 == Put(m1, REMOVE_METHOD(tableName), Generated(i, "remove"))
        m3 == Put(m2, FIND_METHOD(tableName), Generated(i, "find"))
        m4 == Put(m3, FIND_BY_METHOD(tableName), Generated(i, "findBy"))
        m5 == Put(m4, lowerTableName(tableName), Generated(i, "accessor"))
    IN  Put(m5, upperTableName(tableName), Generated(i, "handle"))

AttachMethods(ms, tableName, i) ==
    LET m1 == Put(ms, CREATE_METHOD(tableName), Generated(i, "create"))
        m2 == Put(m1, REMOVE_METHOD(tableName), Generated(i, "remove"))
        m3 == Put(m2, FIND_METHOD(tableName), Generated(i, "find"))
        m4 == Put(m3, lowerTableName(tableName), Generated(i, "accessor"))
    IN  Put(m4, upperTableName(tableName), Generated(i, "handle"))

AttachStatics(ss, tableName, i) ==
    LET s1 == Put(ss, CREATE_METHOD(tableName), Generated(i, "create"))
        s2 == Put(s1, REMOVE_METHOD(tableName), Generated(i, "remove"))
        s3 == Put(s2, FIND_METHOD(tableName), Generated(i, "find"))
        s4 == Put(s3, FIND_BY_METHOD(tableName), Generated(i, "findBy"))
        s5 == Put(s4, lowerTableName(tableName), Generated(i, "accessor"))
    IN  Put(s5, upperTableName(tableName), Generated(i, "handle"))

(* ------------------------------ data ---------------------------------- *)
DBs == {"db1", "db2"}

\* the owning records: documents of the models compiled from the schema,
\* one model per connection
Owners == { [id |-> <<"o1">>, db |-> "db1"], [id |-> <<"o2">>, db |-> "db2"] }

OwnerIds == {o.id : o \in Owners}

\* options / filter objects: the fields the auxiliary schema knows
Options == [modelId : {undefined, <<"o1">>}, type : {undefined, <<"z">>}]

EmptyOptions == [modelId |-> undefined, type |-> undefined]

NoExt == [db |-> "none", name |-> << >>]

TempName(T) == <<"_","_","_","_">> \o T \o <<"_","_","_","_">>

\* A collection's content is a bag of documents: [coll, modelId, type] with
\* the number of stored documents that carry these values.
NoDocs == [d \in {} |-> 0]

NoOut ==
    [op |-> "init", shape |-> "-", att |-> 0, tableName |-> undefined,
     status |-> "returned", error |-> "none", called |-> FALSE, err |-> FALSE,
     recs |-> NoDocs, owners |-> {}, count |-> 0, handle |-> NoExt, db |-> "none",
     owner |-> undefined, opts |-> EmptyOptions, omitted |-> FALSE,
     query |-> EmptyOptions, fail |-> FALSE]

(* ------------------------------ persistence --------------------------- *)
Restrict(bag, S) == [d \in S |-> bag[d]]

One(d) == [x \in {d} |-> 1]

Insert(bag, d) ==
    [x \in DOMAIN bag \cup {d} |->
        IF x = d THEN (IF d \in DOMAIN bag THEN bag[d] + 1 ELSE 1) ELSE bag[x]]

Matches(r, q) ==
    /\ q.modelId = undefined \/ r.modelId = q.modelId
    /\ q.type = undefined \/ r.type = q.type

Find(h, q) == Restrict(store, {d \in DOMAIN store : d.coll = h /\ Matches(d, q)})

Remaining(h, q) ==
    Restrict(store, {d \in DOMAIN store : ~(d.coll = h /\ Matches(d, q))})

(* ------------------------------ getExtension -------------------------- *)
getExtension_NoMemo(extension, db, T) ==
    [handle |-> [db |-> db, name |-> T], constructed |-> TRUE]

getExtension(extension, db, T) ==
    IF extension = NoExt
    THEN [handle |-> [db |-> db, name |-> T], constructed |-> TRUE]
    ELSE [handle |-> extension, constructed |-> FALSE]

Ext(i, db) == getExtension(atts[i].extension, db, atts[i].TYPE)

\* the state change of one getExtension(db) call made by attachment i
Memo(i, db) ==
    /\ built[i] < MaxBuilt
    /\ atts' = [atts EXCEPT ![i].extension = Ext(i, db).handle]
    /\ built' = [built EXCEPT ![i] = IF Ext(i, db).constructed THEN @ + 1 ELSE @]
    /\ firstHandle' = [firstHandle EXCEPT
                         ![i] = IF Ext(i, db).constructed /\ built[i] = 0
                                THEN Ext(i, db).handle ELSE @]
    /\ registered' = IF Ext(i, db).constructed
                     THEN registered \cup
                            { [db |-> db, name |-> TempName(atts[i].TYPE)],
                              [db |-> db, name |-> atts[i].TYPE] }
                     ELSE registered

(* ------------------------------ extension statics --------------------- *)
\* the document handed to this.create: options with modelId overwritten by
\* model._id, the schema's default filling in a missing type
createExtension_KeepCallerModelId(T, modelId, options) ==
    [modelId |-> IF options.modelId # undefined THEN options.modelId ELSE modelId,
     type |-> IF options.type = undefined THEN T ELSE options.type]

createExtension(T, modelId, options) ==
    [modelId |-> modelId,
     type |-> IF options.type = undefined THEN T ELSE options.type]

\* the filter handed to this.remove
removeExtension_KeepCallerModelId(modelId, options) ==
    [options EXCEPT !.modelId = IF @ # undefined THEN @ ELSE modelId]

removeExtension(modelId, options) == [options EXCEPT !.modelId = modelId]

\* extensionSchema.methods.findModel: Model.findOne({_id: this.modelId})
findModel_AnyModel(db, r) == {o \in Owners : o.id = r.modelId}

findModel(db, r) == {o \in Owners : o.db = db /\ o.id = r.modelId}

\* schema.methods[FIND_METHOD]: an options object gets modelId = this._id; a
\* callback passed in the options position is what find() receives as its
\* first argument, and find(callback) queries with no conditions
instanceFindQuery(id, options, omitted) ==
    IF omitted THEN EmptyOptions ELSE [options EXCEPT !.modelId = id]

\* schema.statics[FIND_METHOD]: the options are the query as passed
staticFindQuery(options) == options

(* ------------------------------ initial state ------------------------- *)
Init ==
    /\ \E pre \in PreRegistries : methods = pre.methods /\ statics = pre.statics
    /\ atts = << >>
    /\ built = << >>
    /\ firstHandle = << >>
    /\ registered = {}
    /\ store = NoDocs
    /\ out = NoOut

(* ------------------------------ Extension(schema, pluginOptions) ------ *)
\* what the functions registered by one attach close over: the derived
\* strings and the memoized extension (pluginOptions.tableName itself is
\* read again only to write log lines)
Closure(tableName) ==
    [upperTableName |-> upperTableName(tableName), TYPE |-> TYPE(tableName),
     extension |-> NoExt]

Attach ==
    \E tableName \in TableNames \cup {NoName} :
      IF TableNameMissing(tableName)
      THEN /\ out' = [NoOut EXCEPT !.op = "attach", !.tableName = tableName,
                                   !.status = "threw", !.error = "tableName"]
           /\ UNCHANGED <<methods, statics, atts, built, firstHandle, registered, store>>
      ELSE IF IsDuplicate(methods, tableName)
      THEN /\ out' = [NoOut EXCEPT !.op = "attach", !.tableName = tableName,
                                   !.status = "threw", !.error = "notUnique"]
           /\ UNCHANGED <<methods, statics, atts, built, firstHandle, registered, store>>
      ELSE /\ methods' = AttachMethods(methods, tableName, Len(atts) + 1)
           /\ statics' = AttachStatics(statics, tableName, Len(atts) + 1)
           /\ atts' = Append(atts, Closure(tableName))
           /\ built' = Append(built, 0)
           /\ firstHandle' = Append(firstHandle, NoExt)
           /\ out' = [NoOut EXCEPT !.op = "attach", !.tableName = tableName,
                                   !.att = Len(atts) + 1]
           /\ UNCHANGED <<registered, store>>

(* ------------------------------ create -------------------------------- *)
\* the persistence step of createExtension and its completion callback
Persist(i, h, doc, fail, shape, ownerId, opts, omitted, db, nextIsFunction) ==
    LET rec == [coll |-> h, modelId |-> doc.modelId, type |-> doc.type]
    IN  /\ ~fail => BagCardinality(store) < MaxRecords
        /\ store' = IF fail THEN store ELSE Insert(store, rec)
        /\ out' = [NoOut EXCEPT !.op = "create", !.shape = shape, !.att = i,
                     !.handle = h, !.db = db, !.owner = ownerId, !.opts = opts,
                     !.omitted = omitted, !.fail = fail,
                     !.status = IF nextIsFunction THEN "returned" ELSE "threw",
                     !.error = IF nextIsFunction THEN "none" ELSE "TypeError",
                     !.called = nextIsFunction,
                     !.err = nextIsFunction /\ fail,
                     !.recs = IF nextIsFunction /\ ~fail THEN One(rec) ELSE NoDocs]

\* yourModelInstance.create<N>(options, next) or create<N>(next)
InstanceCreate ==
    \E name \in Names(methods, "create"), o \in Owners, opts \in Options,
       omitted \in BOOLEAN, fail \in BOOLEAN :
      LET i == methods[name].att
      IN  /\ omitted => opts = EmptyOptions
          /\ Memo(i, o.db)
          /\ Persist(i, Ext(i, o.db).handle,
                     createExtension(atts[i].TYPE, o.id, opts),
                     fail, "instance", o.id, opts, omitted, o.db, TRUE)
          /\ UNCHANGED <<methods, statics>>

\* YourModel.create<N>(options, next) as the code declares it ("static"), or
\* YourModel.create<N>(modelInstance, options, next) as its comment
\* documents it ("documented").  In both, createExtension's model is the
\* Model constructor, whose _id is undefined.  In the documented call the
\* parameter named options receives modelInstance and the parameter named
\* next receives the options object, which is not callable.
StaticCreate ==
    \E name \in Names(statics, "create"), db \in DBs, o \in Owners, opts \in Options,
       shape \in {"static", "documented"}, omitted \in BOOLEAN, fail \in BOOLEAN :
      LET i == statics[name].att
      IN  /\ omitted => shape = "static"
          /\ omitted \/ shape = "documented" => opts = EmptyOptions
          /\ Memo(i, db)
          /\ Persist(i, Ext(i, db).handle,
                     createExtension(atts[i].TYPE, undefined,
                                     IF shape = "documented" THEN EmptyOptions ELSE opts),
                     fail, shape,
                     IF shape = "documented" THEN o.id ELSE undefined,
                     opts, omitted, db, shape = "static")
          \* only the documented call names a model instance
          /\ shape = "static" => o = CHOOSE x \in Owners : TRUE
          /\ UNCHANGED <<methods, statics>>

(* ------------------------------ remove -------------------------------- *)
\* yourModelInstance.remove<N>(options, next) / YourModel.remove<N>(model, options, next)
Remove ==
    \E shape \in {"instance", "static"}, db \in DBs, o \in Owners,
       opts \in Options, omitted \in BOOLEAN, fail \in BOOLEAN :
      LET reg == IF shape = "instance" THEN methods ELSE statics
          thisDb == IF shape = "instance" THEN o.db ELSE db
      IN  \E name \in Names(reg, "remove") :
            LET i == reg[name].att
                h == Ext(i, thisDb).handle
                q == removeExtension(o.id, opts)
                gone == IF fail THEN NoDocs ELSE Find(h, q)
            IN  /\ omitted => opts = EmptyOptions
                /\ shape = "instance" => db = o.db
                /\ Memo(i, thisDb)
                /\ store' = IF fail THEN store ELSE Remaining(h, q)
                /\ out' = [NoOut EXCEPT !.op = "remove", !.shape = shape, !.att = i,
                             !.handle = h, !.db = thisDb, !.owner = o.id,
                             !.opts = opts, !.omitted = omitted, !.fail = fail,
                             !.query = q, !.called = TRUE,
                             !.err = fail, !.recs = gone,
                             !.count = BagCardinality(gone)]
                /\ UNCHANGED <<methods, statics>>

(* ------------------------------ find ---------------------------------- *)
\* yourModelInstance.find<N>(options, next)
InstanceFind ==
    \E name \in Names(methods, "find"), o \in Owners, opts \in Options,
       omitted \in BOOLEAN, fail \in BOOLEAN :
      LET i == methods[name].att
          h == Ext(i, o.db).handle
          q == instanceFindQuery(o.id, opts, omitted)
      IN  /\ omitted => opts = EmptyOptions
          /\ Memo(i, o.db)
          /\ out' = [NoOut EXCEPT !.op = "find", !.shape = "instance", !.att = i,
                       !.handle = h, !.db = o.db, !.owner = o.id, !.opts = opts,
                       !.omitted = omitted, !.fail = fail, !.query = q,
                       !.called = TRUE, !.err = fail,
                       !.recs = IF fail THEN NoDocs ELSE Find(h, q)]
          /\ UNCHANGED <<methods, statics, store>>

\* YourModel.find<N>(options, next)
StaticFind ==
    \E name \in Names(statics, "find"), db \in DBs, opts \in Options, fail \in BOOLEAN :
      LET i == statics[name].att
          h == Ext(i, db).handle
          q == staticFindQuery(opts)
      IN  /\ Memo(i, db)
          /\ out' = [NoOut EXCEPT !.op = "find", !.shape = "static", !.att = i,
                       !.handle = h, !.db = db, !.opts = opts, !.fail = fail,
                       !.query = q, !.called = TRUE, !.err = fail,
                       !.recs = IF fail THEN NoDocs ELSE Find(h, q)]
          /\ UNCHANGED <<methods, statics, store>>

(* ------------------------------ findBy -------------------------------- *)
\* YourModel.findBy<N>(options, next): findOne on the extension, then
\* result.findModel(self, next) whatever err and result are.  A null result
\* (error, or no match) makes the callback throw a TypeError.
StaticFindBy ==
    \E name \in Names(statics, "findBy"), db \in DBs, opts \in Options,
       fail \in BOOLEAN, failModel \in BOOLEAN :
      LET i == statics[name].att
          h == Ext(i, db).handle
          found == IF fail THEN NoDocs ELSE Find(h, opts)
          base == [NoOut EXCEPT !.op = "findBy", !.shape = "static", !.att = i,
                     !.handle = h, !.db = db, !.opts = opts, !.query = opts]
      IN  /\ Memo(i, db)
          /\ IF DOMAIN found = {}
             THEN /\ ~failModel
                  /\ out' = [base EXCEPT !.fail = fail, !.status = "threw",
                                         !.error = "TypeError"]
             ELSE \E r \in DOMAIN found :
                    out' = [base EXCEPT !.fail = failModel, !.called = TRUE,
                              !.err = failModel, !.recs = One(r),
                              !.owners = IF failModel THEN {} ELSE findModel(db, r)]
          /\ UNCHANGED <<methods, statics, store>>

(* ------------------------------ accessors ----------------------------- *)
\* <n>(next): next(null, getExtension(this.db))
Accessor ==
    \E shape \in {"instance", "static"}, db \in DBs :
      LET reg == IF shape = "instance" THEN methods ELSE statics
      IN  \E name \in Names(reg, "accessor") :
            LET i == reg[name].att
            IN  /\ Memo(i, db)
                /\ out' = [NoOut EXCEPT !.op = "accessor", !.shape = shape, !.att = i,
                             !.handle = Ext(i, db).handle, !.db = db, !.called = TRUE]
                /\ UNCHANGED <<methods, statics, store>>

\* <N>(): return getExtension(this.db)
Handle ==
    \E shape \in {"instance", "static"}, db \in DBs :
      LET reg == IF shape = "instance" THEN methods ELSE statics
      IN  \E name \in Names(reg, "handle") :
            LET i == reg[name].att
            IN  /\ Memo(i, db)
                /\ out' = [NoOut EXCEPT !.op = "handle", !.shape = shape, !.att = i,
                             !.handle = Ext(i, db).handle, !.db = db]
                /\ UNCHANGED <<methods, statics, store>>

Next ==
    \/ Attach
    \/ InstanceCreate
    \/ StaticCreate
    \/ Remove
    \/ InstanceFind
    \/ StaticFind
    \/ StaticFindBy
    \/ Accessor
    \/ Handle

Spec == Init /\ [][Next]_vars

(* ====================================================================== *)
(* Properties                                                              *)
(* ====================================================================== *)
GeneratedOps == {"create", "remove", "find", "findBy"}

AttachReturned == out.op = "attach" /\ out.status = "returned"

\* the five names the description lists for a table name
FiveNames(tableName) ==
    { CREATE_METHOD(tableName), FIND_METHOD(tableName), REMOVE_METHOD(tableName),
      FIND_BY_METHOD(tableName), lowerTableName(tableName) }

InstanceNames(tableName) ==
    { CREATE_METHOD(tableName), FIND_METHOD(tableName), REMOVE_METHOD(tableName),
      lowerTableName(tableName), upperTableName(tableName) }

StaticNames(tableName) == InstanceNames(tableName) \cup {FIND_BY_METHOD(tableName)}

\* reg2 is reg with exactly `names` (re)registered as functions of attachment i
RegistersExactly(reg, reg2, names, i) ==
    /\ DOMAIN reg2 = DOMAIN reg \cup names
    /\ \A n \in names : reg2[n].kind = "function" /\ reg2[n].att = i
    /\ \A n \in DOMAIN reg \ names : reg2[n] = reg[n]

\* C1 as stated: a successful attach puts the five names create<N>, find<N>,
\* remove<N>, findBy<N>, <n> on both registries and adds no other name.
C1_ExactlyFiveOnBoth ==
    [][ AttachReturned' =>
          /\ \A n \in FiveNames(out'.tableName) :
                n \in DOMAIN methods' /\ n \in DOMAIN statics'
          /\ (DOMAIN methods' \ DOMAIN methods) \subseteq FiveNames(out'.tableName)
          /\ (DOMAIN statics' \ DOMAIN statics) \subseteq FiveNames(out'.tableName)
      ]_vars

\* C1 amended: a successful attach registers on schema.methods exactly
\* create<N>, find<N>, remove<N>, <n> and <N> (no findBy<N>), and on
\* schema.statics exactly those five and findBy<N>; every other entry of
\* either registry is left as it was.
C1_RegisteredNames ==
    [][ AttachReturned' =>
          /\ RegistersExactly(methods, methods', InstanceNames(out'.tableName), out'.att)
          /\ RegistersExactly(statics, statics', StaticNames(out'.tableName), out'.att)
      ]_vars

C1_Witness ==
    /\ AttachReturned
    /\ out.tableName = <<"b">>
    /\ FIND_BY_METHOD(<<"b">>) \notin DOMAIN methods
    /\ FIND_BY_METHOD(<<"b">>) \in DOMAIN statics
    /\ <<"B">> \in DOMAIN methods

\* C2: attach with an absent or empty table name throws the configuration
\* error and leaves both registries as they were.
C2_MissingTableName ==
    [][ (out'.op = "attach" /\ out'.tableName \in {NoName, << >>}) =>
          /\ out'.status = "threw"
          /\ out'.error = "tableName"
          /\ methods' = methods
          /\ statics' = statics
      ]_vars

C2_Witness ==
    /\ out.op = "attach"
    /\ out.tableName = << >>
    /\ out.status = "threw"
    /\ out.error = "tableName"

AttachNamed == out.op = "attach" /\ out.tableName \notin {NoName, << >>}

ThrewNotUnique == out.status = "threw" /\ out.error = "notUnique"

\* C3 as stated: attach fails with the duplicate-name error whenever a
\* method is already registered, on either registry, under any of the five
\* derived names.
C3_AnyDerivedName ==
    [][ ( /\ AttachNamed'
          /\ \E n \in FiveNames(out'.tableName) :
                IsFunctionAt(methods, n) \/ IsFunctionAt(statics, n) )
        => ThrewNotUnique'
      ]_vars

\* C3 amended: attach fails with the duplicate-name error whenever
\* schema.methods already holds a function under create<N>; in particular
\* a second attach with the same table name always fails.  Both leave the
\* registries as they were.
C3_DuplicateCreateName ==
    [][ ( /\ AttachNamed'
          /\ \/ IsFunctionAt(methods, CREATE_METHOD(out'.tableName))
             \/ \E i \in 1..Len(atts) :
                  atts[i].upperTableName = upperTableName(out'.tableName) )
        => (ThrewNotUnique' /\ methods' = methods /\ statics' = statics)
      ]_vars

C3_Witness ==
    /\ AttachNamed
    /\ ThrewNotUnique
    /\ Len(atts) = 1
    /\ atts[1].upperTableName = upperTableName(out.tableName)

InstanceCreated ==
    out.op = "create" /\ out.shape = "instance" /\ out.called /\ ~out.err

\* C4 as stated: a successful instance create adds exactly one record, with
\* modelId the owner's identity and type the lowercased table name, whatever
\* the options carry.
C4_TypeAlwaysTableName ==
    [][ InstanceCreated' =>
          \E d \in DOMAIN store' :
            /\ store' = Insert(store, d)
            /\ d.modelId = out'.owner
            /\ d.type = atts'[out'.att].TYPE
      ]_vars

\* C4 amended: a successful instance create adds exactly one record, with
\* modelId the owner's identity (replacing any modelId in the options) and
\* type the options' type when the options carry one, the lowercased table
\* name otherwise.
C4_InstanceCreate ==
    [][ InstanceCreated' =>
          \E d \in DOMAIN store' :
            /\ store' = Insert(store, d)
            /\ d.coll = out'.handle
            /\ d.modelId = out'.owner
            /\ d.type = IF out'.opts.type # undefined THEN out'.opts.type
                        ELSE atts'[out'.att].TYPE
      ]_vars

C4_Witness ==
    /\ InstanceCreated
    /\ out.opts.modelId # undefined
    /\ out.opts.modelId # out.owner
    /\ \E d \in DOMAIN out.recs : d.modelId = out.owner /\ d \in DOMAIN store

\* C5: whatever generated methods are called, and against whichever
\* connection, each attachment builds and registers its auxiliary model at
\* most once, and every call uses the handle built first.
C5_BuiltOnce ==
    \A i \in 1..Len(atts) :
      /\ built[i] <= 1
      /\ Cardinality({m \in registered : m.name = atts[i].TYPE}) <= 1
      /\ atts[i].extension # NoExt => atts[i].extension = firstHandle[i]
      /\ (out.att = i /\ out.op # "attach") => out.handle = firstHandle[i]

C5_Witness ==
    /\ out.op \in GeneratedOps
    /\ built[out.att] = 1
    /\ out.db # firstHandle[out.att].db
    /\ out.handle = firstHandle[out.att]

\* C6 as stated: a generated operation never throws; its outcome, a
\* persistence error included, reaches the completion callback.  (Static
\* create called with three arguments is the subject of C10 and is left out
\* here.)
C6_NeverThrows ==
    (out.op \in GeneratedOps /\ out.shape # "documented") =>
        /\ out.status = "returned"
        /\ out.called
        /\ out.fail => out.err

\* C7: findBy with a filter matching exactly one auxiliary record R delivers
\* the owner whose _id is R.modelId in the model findBy was called on, and
\* nothing else.
C7_FindByOwner ==
    ( /\ out.op = "findBy"
      /\ ~out.fail
      /\ BagCardinality(Find(out.handle, out.opts)) = 1 )
    => \A R \in DOMAIN Find(out.handle, out.opts) :
         /\ out.status = "returned"
         /\ out.called
         /\ ~out.err
         /\ out.owners = {o \in Owners : o.db = out.db /\ o.id = R.modelId}

C7_Witness ==
    /\ out.op = "findBy"
    /\ BagCardinality(Find(out.handle, out.opts)) = 1
    /\ BagCardinality(Find(out.handle, EmptyOptions)) = 2
    /\ \E o \in out.owners : o.db = out.db

\* C8 as stated: find always queries with modelId in the filter; on an
\* instance the filter's modelId is the instance's identity and only that
\* owner's records come back; as a static a modelId is injected.
C8_FindFiltersByModelId ==
    (out.op = "find" /\ ~out.omitted) =>
        /\ out.query.modelId # undefined
        /\ out.shape = "instance" =>
             /\ out.query.modelId = out.owner
             /\ \A d \in DOMAIN out.recs : d.modelId = out.owner

Removed == out.op = "remove" /\ out.called /\ ~out.err

Without(bag, gone) == Restrict(bag, {d \in DOMAIN bag : d \notin gone})

\* C9 as stated: a successful remove for owner I with filter F deletes
\* exactly the records with modelId = I that match F, F taken as passed.
C9_RemovesMatchingF ==
    [][ Removed' =>
          store' = Without(store, {d \in DOMAIN store :
                                      /\ d.coll = out'.handle
                                      /\ d.modelId = out'.owner
                                      /\ Matches(d, out'.opts)})
      ]_vars

\* C9 amended: a successful remove for owner I with filter F deletes exactly
\* the records with modelId = I that match the fields of F other than
\* modelId (a modelId in F is replaced by I); every other record stays.
C9_RemovesOwnersMatching ==
    [][ Removed' =>
          store' = Without(store, {d \in DOMAIN store :
                                      /\ d.coll = out'.handle
                                      /\ d.modelId = out'.owner
                                      /\ Matches(d, [out'.opts EXCEPT !.modelId = undefined])})
      ]_vars

C9_Witness ==
    /\ Removed
    /\ out.count = 1
    /\ out.opts.type # undefined
    /\ \E d \in DOMAIN store : d.coll = out.handle /\ d.modelId # out.owner

\* C10 as stated: YourModel.create<N>(modelInstance, options, next) stores a
\* record whose modelId is modelInstance's identity and reports it to next.
C10_StaticCreateDocumented ==
    (out.op = "create" /\ out.shape = "documented" /\ ~out.fail) =>
        /\ out.called
        /\ \E d \in DOMAIN out.recs : d.modelId = out.owner

====
